---- MODULE Spec2Model ----
(***************************************************************************)
(* The extraction orchestrator of the recipe backend: the three edge       *)
(* functions POST /extract, POST /apify-webhook and GET /result, and the   *)
(* cache table (the job store) they share.                                 *)
(*                                                                         *)
(* A request is a process: every await on the job store or on an external  *)
(* service (normalizer, scraper) ends an atomic step, so that requests     *)
(* interleave exactly where the handlers can be suspended.                 *)
(***************************************************************************)
EXTENDS Naturals, Sequences, FiniteSets, TLC

VARIABLES cache, req, env

vars == <<cache, req, env>>

(***************************************************************************)
(* Values.  An absent string (undefined / null / "") is None; an absent    *)
(* object is the empty sequence and a present one a one-element sequence.  *)
(***************************************************************************)
None == "none"

\* The two requests the concurrency statements are about.
Reqs == {"r1", "r2"}

\* Canonical video ids, and the short code of a share link, which is no
\* canonical id of any video.
TikTokIds == {"t1"}
YouTubeIds == {"y1"}
ShortCode == "ZMabc"
Keys == TikTokIds \cup YouTubeIds \cup {ShortCode}

\* Number of distinct recipe bodies a normalizer may answer with.
MaxVariant == 2

\* types.ts / constants.ts
MIN_RECIPE_CAPTION_LENGTH == 20
MIN_RECIPE_KEYWORD_MATCHES == 3

(***************************************************************************)
(* URLs.  A URL is known by its host, its path and its query, which is all *)
(* that the validators look at.                                            *)
(***************************************************************************)
UrlTikTokLong == "https://www.tiktok.com/@chef/video/t1"
UrlTikTokShort == "https://vm.tiktok.com/ZMabc/"
UrlTikTokProfile == "https://www.tiktok.com/@chef"
UrlYouTubeWatch == "https://www.youtube.com/watch?v=y1"
UrlYouTubeShort == "https://youtu.be/y1"
UrlOther == "https://example.com/video/t1"

Urls == {UrlTikTokLong, UrlTikTokShort, UrlTikTokProfile, UrlYouTubeWatch,
         UrlYouTubeShort, UrlOther}

Hostname(u) ==
    CASE u = UrlTikTokLong -> "www.tiktok.com"
      [] u = UrlTikTokShort -> "vm.tiktok.com"
      [] u = UrlTikTokProfile -> "www.tiktok.com"
      [] u = UrlYouTubeWatch -> "www.youtube.com"
      [] u = UrlYouTubeShort -> "youtu.be"
      [] OTHER -> "example.com"

\* The path segments the validators search for, per URL.
PathSegments(u) ==
    CASE u = UrlTikTokLong -> {"/video/"}
      [] u = UrlTikTokShort -> {}
      [] u = UrlTikTokProfile -> {}
      [] u = UrlYouTubeWatch -> {"/watch"}
      [] u = UrlYouTubeShort -> {}
      [] OTHER -> {"/video/"}

PathLength(u) == IF u = UrlYouTubeShort THEN 3 ELSE IF u = UrlTikTokShort THEN 7 ELSE 12

HasVParam(u) == u = UrlYouTubeWatch

\* The text after the last slash of the path, and the v parameter.
PathTail(u) ==
    CASE u = UrlTikTokLong -> "t1"
      [] u = UrlTikTokShort -> ShortCode
      [] u = UrlYouTubeShort -> "y1"
      [] OTHER -> None

VParam(u) == IF u = UrlYouTubeWatch THEN "y1" ELSE None

isValidTikTokUrl(u) ==
    /\ Hostname(u) \in {"tiktok.com", "www.tiktok.com", "vm.tiktok.com",
                        "vt.tiktok.com", "m.tiktok.com"}
    /\ \/ "/video/" \in PathSegments(u)
       \/ "/v/" \in PathSegments(u)
       \/ Hostname(u) \in {"vm.tiktok.com", "vt.tiktok.com"}

isValidYouTubeUrl(u) ==
    /\ Hostname(u) \in {"youtube.com", "www.youtube.com", "youtu.be", "m.youtube.com"}
    /\ IF Hostname(u) = "youtu.be"
       THEN PathLength(u) > 1
       ELSE \/ PathSegments(u) \cap {"/watch", "/embed/", "/v/", "/shorts/"} # {}
            \/ HasVParam(u)

\* extractYouTubeVideoId: the id the URL itself shows.
extractYouTubeVideoId(u) ==
    IF Hostname(u) = "youtu.be" THEN PathTail(u)
    ELSE IF HasVParam(u) THEN VParam(u)
    ELSE IF PathSegments(u) \cap {"/embed/", "/v/", "/shorts/"} # {} THEN PathTail(u)
    ELSE None

\* extractTikTokVideoId (utils/apify.ts): the id the URL itself shows, the
\* short code for a share link.  The handlers no longer call it.
extractTikTokVideoId(u) ==
    IF Hostname(u) \notin {"tiktok.com", "www.tiktok.com", "vm.tiktok.com",
                           "vt.tiktok.com", "m.tiktok.com"}
    THEN None
    ELSE IF "/video/" \in PathSegments(u) THEN PathTail(u)
    ELSE IF Hostname(u) \in {"vm.tiktok.com", "vt.tiktok.com"} THEN PathTail(u)
    ELSE IF "/v/" \in PathSegments(u) THEN PathTail(u)
    ELSE None

\* parseVideoUrl: platform None when the URL is of neither platform.
parseVideoUrl(u) ==
    IF isValidTikTokUrl(u)
    THEN [platform |-> "tiktok", url |-> u, videoId |-> None]
    ELSE IF isValidYouTubeUrl(u)
    THEN [platform |-> "youtube", url |-> u, videoId |-> extractYouTubeVideoId(u)]
    ELSE [platform |-> None, url |-> u, videoId |-> None]

(***************************************************************************)
(* Captions.  A caption is known by its trimmed length and by the number   *)
(* of recipe keywords it contains.                                         *)
(***************************************************************************)
Captions == {"terse", "short", "recipe"}

CaptionLength(c) ==
    CASE c = "terse" -> 25
      [] c = "short" -> 19
      [] c = "recipe" -> 25
      [] OTHER -> 0

CaptionKeywords(c) ==
    CASE c = "terse" -> 2
      [] c = "short" -> 3
      [] c = "recipe" -> 3
      [] OTHER -> 0

looksLikeRecipe(c) ==
    IF c = None \/ CaptionLength(c) < MIN_RECIPE_CAPTION_LENGTH
    THEN FALSE
    ELSE CaptionKeywords(c) >= MIN_RECIPE_KEYWORD_MATCHES

shouldNormalizeFromCaption(c) ==
    IF c = None THEN FALSE ELSE looksLikeRecipe(c)

(***************************************************************************)
(* oEmbed answers.                                                         *)
(***************************************************************************)
ThumbOf(id) == "https://i.ytimg.com/vi/" \o id \o "/hqdefault.jpg"
ThumbOdd == "https://yt3.ggpht.com/odd.jpg"

\* extractVideoIdFromThumbnail: the segment between /vi/ and the next slash.
extractVideoIdFromThumbnail(t) ==
    IF \E id \in YouTubeIds : t = ThumbOf(id)
    THEN CHOOSE id \in YouTubeIds : t = ThumbOf(id)
    ELSE None

getVideoIdFromOEmbed(oe) ==
    IF oe.thumbnail_url = None THEN None
    ELSE extractVideoIdFromThumbnail(oe.thumbnail_url)

\* extractCaption: the title, else the description.
extractCaption(oe) ==
    IF oe.title # None THEN oe.title
    ELSE IF oe.description # None THEN oe.description
    ELSE None

NoOEmbed == [ok |-> FALSE, embed_product_id |-> None, title |-> None,
             description |-> None, thumbnail_url |-> None]

\* What the TikTok oEmbed endpoint may answer.
OEmbed(id, title, description, thumbnail_url) ==
    [ok |-> TRUE, embed_product_id |-> id, title |-> title,
     description |-> description, thumbnail_url |-> thumbnail_url]

TikTokOEmbeds ==
    {NoOEmbed, OEmbed(None, "recipe", None, None)} \cup
    {OEmbed(id, title, None, None) : id \in TikTokIds, title \in Captions} \cup
    {OEmbed(id, None, d, None) : id \in TikTokIds, d \in {None, "recipe"}}

\* What the YouTube oEmbed endpoint may answer.
YouTubeOEmbeds ==
    {NoOEmbed} \cup
    {OEmbed(None, None, None, t) :
        t \in {None, ThumbOdd} \cup {ThumbOf(id) : id \in YouTubeIds}}

(***************************************************************************)
(* Recipes, rows of the cache table, responses.                            *)
(***************************************************************************)
Providers == {"openai", "gemini"}

\* What a provider answers: a recipe body, with or without its own id,
\* source_url and media.
Output(variant, id, source_url) ==
    [variant |-> variant, id |-> id, source_url |-> source_url, media |-> None]

ProviderOutputs ==
    {Output(v, None, None) : v \in 1..MaxVariant} \cup
    {[Output(1, "llm-id", None) EXCEPT !.media = "llm-media"],
     Output(1, None, "llm-url")}

NoMeta == [source_url |-> None, caption |-> None, transcript |-> None,
           actorRunId |-> None]

NoRow == [status |-> "NONE", value |-> <<>>, meta |-> NoMeta, error |-> None]

NoResp == [code |-> 0, status |-> None, value |-> <<>>, error |-> None]

Resp(code, status, value, error) ==
    [code |-> code, status |-> status, value |-> value, error |-> error]

NoItem == [id |-> None, caption |-> None, transcript |-> None, url |-> None]

NoPayload == [datasetId |-> None, actorRunId |-> None, source_url |-> None,
              key |-> None, caption |-> None, transcript |-> None]

\* The callback URL of a run is known by its key and secret parameters.
NoWebhookUrl == [key |-> None, secret |-> None]

\* The body of the request that starts a run of the actor.
NoActorInput == [videos |-> None, videoKey |-> None, webhookUrl |-> NoWebhookUrl]

Idle == [kind |-> "idle", pc |-> "idle", url |-> None, force |-> FALSE,
         platform |-> None, key |-> None, oembed |-> NoOEmbed,
         cached |-> NoRow, payload |-> NoPayload, item |-> NoItem,
         queryKey |-> None, secret |-> None, recipe |-> <<>>, provider |-> None,
         runId |-> None, normalized |-> FALSE, triggered |-> FALSE,
         wrote |-> FALSE, read |-> FALSE, storeError |-> FALSE,
         actorInput |-> NoActorInput, resp |-> NoResp]

RunIds == {"run1"}

\* The secret APIFY_WEBHOOK_SECRET holds when it is set.
ExpectedSecret == "good"

\* The deployments the functions run in: every secret set, the keys of the
\* AI providers missing, the Gemini key alone missing, or every secret set
\* and AI_PROVIDER naming Gemini.
FullEnv == [supabase |-> TRUE, openaiKey |-> TRUE, geminiKey |-> TRUE,
            aiProvider |-> "openai", apifyToken |-> TRUE, apifyActor |-> TRUE,
            webhookSecret |-> TRUE]

NoKeysEnv == [FullEnv EXCEPT !.openaiKey = FALSE, !.geminiKey = FALSE]

NoGeminiEnv == [FullEnv EXCEPT !.geminiKey = FALSE]

GeminiEnv == [FullEnv EXCEPT !.aiProvider = "gemini"]

Envs == {FullEnv, NoKeysEnv, NoGeminiEnv, GeminiEnv}

(***************************************************************************)
(* The job store.  supabase.from("cache").upsert(payload) inserts the row, *)
(* or on a key conflict overwrites exactly the columns the payload names   *)
(* and keeps the others.  A column is given as a one-element sequence and  *)
(* left out as the empty one.                                              *)
(***************************************************************************)
\* An upsert that never sends the value column.
UpsertWithoutValue(old, status, value, meta, error) ==
    [status |-> status,
     value |-> old.value,
     meta |-> IF meta # <<>> THEN meta[1] ELSE old.meta,
     error |-> IF error # <<>> THEN error[1] ELSE old.error]

Upsert(old, status, value, meta, error) ==
    [status |-> status,
     value |-> IF value # <<>> THEN value ELSE old.value,
     meta |-> IF meta # <<>> THEN meta[1] ELSE old.meta,
     error |-> IF error # <<>> THEN error[1] ELSE old.error]

\* The store after request r's upsert for `key`; dbOk is whether the store
\* accepted the write.
Stored(key, dbOk, status, value, meta, error) ==
    IF dbOk
    THEN [cache EXCEPT ![key] = Upsert(cache[key], status, value, meta, error)]
    ELSE cache

(***************************************************************************)
(* The normalizers fill in what the provider left out.                     *)
(***************************************************************************)
\* A normalizer that hands on what the provider answered.
BackfillNothing(out, video_id, source_url) == out

\* The media object is known by its type.
Backfill(out, video_id, source_url) ==
    [id |-> IF out.id = None THEN video_id ELSE out.id,
     source_url |-> IF out.source_url = None THEN source_url ELSE out.source_url,
     media |-> IF out.media = None THEN "oembed" ELSE out.media,
     variant |-> out.variant]

\* getAIProvider: the provider of a platform, None when its key is missing.
getAIProvider(platform) ==
    IF platform = "youtube"
    THEN IF env.geminiKey THEN "gemini" ELSE None
    ELSE IF env.aiProvider = "gemini"
         THEN IF env.geminiKey THEN "gemini" ELSE None
         ELSE IF env.openaiKey THEN "openai" ELSE None

Done(q, resp) == [q EXCEPT !.pc = "done", !.resp = resp]

(***************************************************************************)
(* POST /extract                                                           *)
(***************************************************************************)
\* The key taken from the URL, as the earlier /extract did.
ExtractKeyFromUrl(parsed, oe) ==
    IF parsed.platform = "youtube" THEN parsed.videoId
    ELSE IF oe.embed_product_id = None THEN None
    ELSE extractTikTokVideoId(parsed.url)

\* The id the oEmbed answer carries and, for want of one, the id the URL
\* shows.
ExtractKeyGuessed(parsed, oe) ==
    IF parsed.platform = "youtube"
    THEN IF getVideoIdFromOEmbed(oe) # None THEN getVideoIdFromOEmbed(oe)
         ELSE parsed.videoId
    ELSE IF oe.embed_product_id # None THEN oe.embed_product_id
         ELSE extractTikTokVideoId(parsed.url)

\* The key /extract reads and writes the store under: the id the oEmbed
\* answer carries.
ExtractKey(parsed, oe) ==
    IF parsed.platform = "youtube" THEN getVideoIdFromOEmbed(oe) ELSE oe.embed_product_id

\* Body parsing, URL validation and the oEmbed fetch: everything before the
\* first store access.
ExtractStart(r, url, force, oe) ==
    /\ req[r].kind = "idle"
    /\ LET parsed == parseVideoUrl(url)
           platform == parsed.platform
           q == [Idle EXCEPT !.kind = "extract", !.url = url, !.force = force,
                             !.platform = platform]
       IN IF url = None
          THEN /\ oe = NoOEmbed
               /\ req' = [req EXCEPT ![r] = Done(q, Resp(400, None, <<>>, "Missing url"))]
          ELSE IF platform = None
          THEN /\ oe = NoOEmbed
               /\ req' = [req EXCEPT ![r] = Done(q, Resp(400, None, <<>>, "Invalid video URL"))]
          ELSE IF ~env.supabase
          THEN /\ oe = NoOEmbed
               /\ req' = [req EXCEPT ![r] = Done(q, Resp(500, None, <<>>, "Server configuration error"))]
          ELSE /\ oe \in (IF platform = "youtube" THEN YouTubeOEmbeds ELSE TikTokOEmbeds)
               /\ IF ~oe.ok
                  THEN req' = [req EXCEPT ![r] = Done(q, Resp(400, None, <<>>, "Invalid video"))]
                  ELSE IF ExtractKey(parsed, oe) = None
                  THEN req' = [req EXCEPT ![r] = Done(q, Resp(400, None, <<>>, "Invalid video data"))]
                  ELSE req' = [req EXCEPT ![r] = [q EXCEPT !.pc = "lookup", !.oembed = oe,
                                                           !.key = ExtractKey(parsed, oe)]]
    /\ UNCHANGED <<cache, env>>

\* The READY hit with the force flag read the wrong way round.
YouTubeCacheHitForced(cached, force) == cached.status = "READY" /\ force

\* The PENDING hit taken only by a forced request.
TikTokPendingHitForced(cached, force) == cached.status = "PENDING" /\ force

\* The FAILED hit taken whatever the force flag.
TikTokFailedHitAlways(cached, force) == cached.status = "FAILED"

\* After the lookup: the cache hit that answers a YouTube request, if any.
YouTubeCacheHit(cached, force) == cached.status = "READY" /\ ~force

\* After the lookup: the cache hits that answer a TikTok request.
TikTokReadyHit(cached, force) == cached.status = "READY"

TikTokPendingHit(cached, force) == cached.status = "PENDING"

TikTokFailedHit(cached, force) == cached.status = "FAILED" /\ ~force

\* The cache lookup and the branch on what it found.
ExtractLookup(r, dbOk) ==
    /\ req[r].kind = "extract" /\ req[r].pc = "lookup"
    /\ LET q == [req[r] EXCEPT !.read = TRUE, !.storeError = ~dbOk]
           cached == cache[q.key]
           hit == [q EXCEPT !.cached = cached]
           caption == extractCaption(q.oembed)
       IN IF ~dbOk
          THEN req' = [req EXCEPT ![r] = Done(q, Resp(500, None, <<>>, "Database error"))]
          ELSE IF q.platform = "youtube"
          THEN IF YouTubeCacheHit(cached, q.force)
               THEN req' = [req EXCEPT ![r] = Done(hit, Resp(200, "READY", cached.value, None))]
               ELSE req' = [req EXCEPT ![r] = [hit EXCEPT !.pc = "ytNormalize"]]
          ELSE IF TikTokReadyHit(cached, q.force)
               THEN req' = [req EXCEPT ![r] = Done(hit, Resp(200, "READY", cached.value, None))]
          ELSE IF TikTokPendingHit(cached, q.force)
               THEN req' = [req EXCEPT ![r] = Done(hit, Resp(202, "PENDING", <<>>, None))]
          ELSE IF TikTokFailedHit(cached, q.force)
               THEN req' = [req EXCEPT ![r] = Done(hit, Resp(200, "FAILED", <<>>, cached.error))]
          ELSE IF caption # None /\ shouldNormalizeFromCaption(caption)
               THEN req' = [req EXCEPT ![r] = [hit EXCEPT !.pc = "normalize"]]
               ELSE req' = [req EXCEPT ![r] = [hit EXCEPT !.pc = "trigger"]]
    /\ UNCHANGED <<cache, env>>

\* A fast path whose failure ends the request as a failed one.
AfterFastPathErrorFatal == "storeFailed"

\* Where /extract goes on when the fast path has thrown: the catch logs and
\* falls through to the scraper.
AfterFastPathError == "trigger"

\* The fast path: normalizeRecipe on the caption; a failure falls through to
\* the scraper.
ExtractNormalize(r, ok, out) ==
    /\ req[r].kind = "extract" /\ req[r].pc = "normalize"
    /\ LET q == req[r]
           provider == getAIProvider(q.platform)
       IN IF provider = None
          THEN /\ ok = FALSE /\ out = Output(1, None, None)
               /\ req' = [req EXCEPT ![r] = [q EXCEPT !.pc = AfterFastPathError]]
          ELSE IF ok
          THEN req' = [req EXCEPT ![r] =
                    [q EXCEPT !.pc = "storeReady", !.normalized = TRUE,
                              !.provider = provider,
                              !.recipe = <<Backfill(out, q.key, q.url)>>]]
          ELSE /\ out = Output(1, None, None)
               /\ req' = [req EXCEPT ![r] = [q EXCEPT !.pc = AfterFastPathError, !.normalized = TRUE,
                                                        !.provider = provider]]
    /\ UNCHANGED <<cache, env>>

\* The READY upsert of the fast path; a store error is logged and the
\* request answers READY all the same.
ExtractStoreReady(r, dbOk) ==
    /\ req[r].kind = "extract" /\ req[r].pc = "storeReady"
    /\ LET q == req[r]
           meta == [NoMeta EXCEPT !.source_url = q.url,
                                  !.caption = extractCaption(q.oembed)]
       IN /\ cache' = Stored(q.key, dbOk, "READY", q.recipe, <<meta>>, <<>>)
          /\ req' = [req EXCEPT ![r] =
                 Done([q EXCEPT !.wrote = TRUE, !.storeError = @ \/ ~dbOk], Resp(200, "READY", q.recipe, None))]
    /\ UNCHANGED env

\* buildWebhookUrl: <base>/apify-webhook?key=<key>&secret=<secret>.
buildWebhookUrl(key, secret) == [key |-> key, secret |-> secret]

\* triggerApifyActor's request body: the video and customData.videoKey; the
\* webhookUrl of its input is logged and not sent.
actorInput(videoUrl, webhookUrl, key) ==
    [videos |-> videoUrl, videoKey |-> key, webhookUrl |-> NoWebhookUrl]

\* A failed trigger that is taken for a started run.
AfterTriggerErrorPending == "storePending"

\* Where /extract goes on when triggerApifyActor has thrown: the catch that
\* stores the failure.
AfterTriggerError == "storeFailed"

\* The slow path: the Apify configuration check and triggerApifyActor.
ExtractTrigger(r, ok, run) ==
    /\ req[r].kind = "extract" /\ req[r].pc = "trigger"
    /\ LET q == req[r]
           webhookUrl == buildWebhookUrl(q.key, ExpectedSecret)
           sent == [q EXCEPT !.triggered = TRUE,
                             !.actorInput = actorInput(q.url, webhookUrl, q.key)]
       IN IF ~(env.apifyToken /\ env.apifyActor /\ env.webhookSecret)
          THEN /\ ok = FALSE
               /\ req' = [req EXCEPT ![r] = Done(q, Resp(500, None, <<>>, "Server configuration error"))]
          ELSE IF ok
          THEN req' = [req EXCEPT ![r] = [sent EXCEPT !.pc = "storePending", !.runId = run]]
          ELSE req' = [req EXCEPT ![r] = [sent EXCEPT !.pc = AfterTriggerError]]
    /\ UNCHANGED <<cache, env>>

\* The PENDING upsert after a successful trigger.
ExtractStorePending(r, dbOk) ==
    /\ req[r].kind = "extract" /\ req[r].pc = "storePending"
    /\ LET q == req[r]
           meta == [NoMeta EXCEPT !.source_url = q.url,
                                  !.caption = extractCaption(q.oembed),
                                  !.actorRunId = q.runId]
       IN /\ cache' = Stored(q.key, dbOk, "PENDING", <<>>, <<meta>>, <<>>)
          /\ req' = [req EXCEPT ![r] =
                 Done([q EXCEPT !.wrote = TRUE, !.storeError = @ \/ ~dbOk], Resp(202, "PENDING", <<>>, None))]
    /\ UNCHANGED env

\* The FAILED upsert after a failed trigger.
ExtractStoreFailed(r, dbOk) ==
    /\ req[r].kind = "extract" /\ req[r].pc = "storeFailed"
    /\ LET q == req[r]
           meta == [NoMeta EXCEPT !.source_url = q.url,
                                  !.caption = extractCaption(q.oembed)]
       IN /\ cache' = Stored(q.key, dbOk, "FAILED", <<>>, <<meta>>, <<"apify_error">>)
          /\ req' = [req EXCEPT ![r] =
                 Done([q EXCEPT !.wrote = TRUE, !.storeError = @ \/ ~dbOk], Resp(500, None, <<>>, "Failed to start extraction"))]
    /\ UNCHANGED env

\* A video analysis that makes do with the OpenAI key.
HasVideoKeyOrOpenAI == env.geminiKey \/ env.openaiKey

\* normalizeYouTubeVideo: the key it requires before it calls Gemini.
HasVideoKey == env.geminiKey

\* YouTube: normalizeYouTubeVideo, Gemini's video analysis.
ExtractYtNormalize(r, ok, out) ==
    /\ req[r].kind = "extract" /\ req[r].pc = "ytNormalize"
    /\ LET q == req[r]
       IN IF ~HasVideoKey
          THEN /\ ok = FALSE /\ out = Output(1, None, None)
               /\ req' = [req EXCEPT ![r] = [q EXCEPT !.pc = "ytStoreFailed"]]
          ELSE IF ok
          THEN req' = [req EXCEPT ![r] =
                    [q EXCEPT !.pc = "ytStoreReady", !.normalized = TRUE,
                              !.provider = "gemini",
                              !.recipe = <<Backfill(out, q.key, q.url)>>]]
          ELSE /\ out = Output(1, None, None)
               /\ req' = [req EXCEPT ![r] = [q EXCEPT !.pc = "ytStoreFailed", !.normalized = TRUE,
                                                        !.provider = "gemini"]]
    /\ UNCHANGED <<cache, env>>

\* YouTube: the READY upsert.
ExtractYtStoreReady(r, dbOk) ==
    /\ req[r].kind = "extract" /\ req[r].pc = "ytStoreReady"
    /\ LET q == req[r]
           meta == [NoMeta EXCEPT !.source_url = q.url]
       IN /\ cache' = Stored(q.key, dbOk, "READY", q.recipe, <<meta>>, <<>>)
          /\ req' = [req EXCEPT ![r] =
                 Done([q EXCEPT !.wrote = TRUE, !.storeError = @ \/ ~dbOk], Resp(200, "READY", q.recipe, None))]
    /\ UNCHANGED env

\* YouTube: the FAILED upsert after a failed analysis.
ExtractYtStoreFailed(r, dbOk) ==
    /\ req[r].kind = "extract" /\ req[r].pc = "ytStoreFailed"
    /\ LET q == req[r]
           meta == [NoMeta EXCEPT !.source_url = q.url]
       IN /\ cache' = Stored(q.key, dbOk, "FAILED", <<>>, <<meta>>, <<"gemini_video_error">>)
          /\ req' = [req EXCEPT ![r] =
                 Done([q EXCEPT !.wrote = TRUE, !.storeError = @ \/ ~dbOk], Resp(500, None, <<>>, "Failed to analyze video"))]
    /\ UNCHANGED env

(***************************************************************************)
(* POST /apify-webhook                                                     *)
(***************************************************************************)
Secrets == {None, "good", "bad"}

\* The secret check that lets a request without a secret through.
verifyWebhookSecretLax(secret) == secret = None \/ secret = ExpectedSecret

\* verifyWebhookSecret: the secret query parameter is there and equal.
verifyWebhookSecret(secret) == secret # None /\ secret = ExpectedSecret

\* A request body that refers to the scraper's result.
Reference(datasetId, actorRunId, source_url) ==
    [NoPayload EXCEPT !.datasetId = datasetId, !.actorRunId = actorRunId,
                      !.source_url = source_url]

\* A request body that carries the scraped content itself.
Inline(key, caption, transcript) ==
    [NoPayload EXCEPT !.key = key, !.caption = caption, !.transcript = transcript]

\* Request bodies: a reference to the run's dataset, a reference to the run
\* alone, the body that names nothing, and ApifyWebhookPayload's inline
\* content.
Payloads ==
    { Reference("ds1", "run1", None),
      Reference("ds1", None, UrlTikTokLong),
      Reference(None, "run1", None),
      NoPayload,
      Inline("t1", None, "vtt") }

\* The first item of the dataset.
Item(id, caption, transcript) ==
    [id |-> id, caption |-> caption, transcript |-> transcript, url |-> None]

Items ==
    {NoItem, Item(None, None, "vtt")} \cup
    {Item(id, c[1], c[2]) :
        id \in TikTokIds, c \in {<<None, None>>, <<None, "vtt">>, <<"recipe", None>>}}

\* What the Apify API answers: the run (for its defaultDatasetId) and the
\* dataset's items.
Worlds ==
    [run : {"fail", "nodataset", "ok"}, dataset : {"fail", "empty", "item"},
     item : Items]

DefaultUrl(key) == "https://www.tiktok.com/video/" \o key

\* a || b over strings.
Or2(a, b) == IF a # None THEN a ELSE b

\* The key taken from the key query parameter, as the earlier webhook did.
WebhookKeyFromQuery(item, queryKey) == queryKey

\* The key of the job a delivery is about: the id of the first dataset item.
WebhookKey(item, queryKey) == item.id

\* The key query parameter of a delivery: none, the key of the job or the
\* key of another job.
QueryKeys == TikTokIds \cup YouTubeIds \cup {None}

\* Everything before the first store access: the secret check, the body, the
\* dataset fetch and the extraction of key, caption and transcript.
WebhookStart(r, secret, queryKey, payload, world) ==
    /\ req[r].kind = "idle"
    /\ LET q == [Idle EXCEPT !.kind = "webhook", !.queryKey = queryKey,
                             !.secret = secret]
           viaRun == payload.datasetId = None
           item == world.item
           stop(code, error) == req' = [req EXCEPT ![r] = Done(q, Resp(code, None, <<>>, error))]
           plain == payload = NoPayload /\ world = [run |-> "ok", dataset |-> "item", item |-> NoItem]
       IN IF ~env.webhookSecret
          THEN plain /\ secret = None /\ stop(500, "Server configuration error")
          ELSE IF ~verifyWebhookSecret(secret)
          THEN plain /\ stop(401, "Unauthorized")
          ELSE IF ~env.apifyToken
          THEN plain /\ stop(500, "Server configuration error")
          ELSE IF viaRun /\ payload.actorRunId = None
          THEN world.run = "ok" /\ world.dataset = "item" /\ item = NoItem
               /\ stop(400, "Missing datasetId and actorRunId")
          ELSE IF viaRun /\ world.run = "fail"
          THEN world.dataset = "item" /\ item = NoItem /\ stop(500, "Failed to fetch actor run")
          ELSE IF viaRun /\ world.run = "nodataset"
          THEN world.dataset = "item" /\ item = NoItem /\ stop(400, "No dataset in actor run")
          ELSE IF world.dataset = "fail"
          THEN item = NoItem /\ stop(500, "Failed to fetch Apify dataset")
          ELSE IF world.dataset = "empty"
          THEN item = NoItem /\ stop(400, "No data in dataset")
          ELSE IF WebhookKey(item, queryKey) = None
          THEN stop(400, "No video ID in dataset")
          ELSE LET go == [q EXCEPT !.key = WebhookKey(item, queryKey), !.item = item,
                                   !.payload = [payload EXCEPT !.datasetId = None]]
               IN IF item.caption = None /\ item.transcript = None
                  THEN IF env.supabase
                       THEN req' = [req EXCEPT ![r] = [go EXCEPT !.pc = "storeNoContent"]]
                       ELSE req' = [req EXCEPT ![r] = Done(go, Resp(400, None, <<>>, "No content to process"))]
                  ELSE IF ~env.supabase
                  THEN req' = [req EXCEPT ![r] = Done(go, Resp(500, None, <<>>, "Server configuration error"))]
                  ELSE req' = [req EXCEPT ![r] = [go EXCEPT !.pc = "lookup"]]
    /\ UNCHANGED <<cache, env>>

\* A delivery that fails and leaves the job waiting.
WebhookFailedStatusPending == "PENDING"

\* The status column of the upserts by which a delivery records its failure.
WebhookFailedStatus == "FAILED"

\* No caption and no transcript: the FAILED upsert, before any lookup.
WebhookStoreNoContent(r, dbOk) ==
    /\ req[r].kind = "webhook" /\ req[r].pc = "storeNoContent"
    /\ LET q == req[r]
           meta == [NoMeta EXCEPT !.actorRunId = q.payload.actorRunId,
                                  !.source_url = q.payload.source_url]
       IN /\ cache' = Stored(q.key, dbOk, WebhookFailedStatus, <<>>, <<meta>>, <<"apify_no_content">>)
          /\ req' = [req EXCEPT ![r] =
                 Done([q EXCEPT !.wrote = TRUE, !.storeError = @ \/ ~dbOk], Resp(400, None, <<>>, "No content to process"))]
    /\ UNCHANGED env

\* What the handler holds of the row after select("status, meta"): nothing
\* when the select failed, its error being dropped.
Existing(row, dbOk) ==
    IF dbOk THEN [NoRow EXCEPT !.status = row.status, !.meta = row.meta] ELSE NoRow

\* The idempotency check: the delivery stops here when this holds.
AlreadyProcessed(existing) == existing.status = "READY"

\* The lookup, the idempotency check and the OpenAI key check.
WebhookLookup(r, dbOk) ==
    /\ req[r].kind = "webhook" /\ req[r].pc = "lookup"
    /\ LET existing == Existing(cache[req[r].key], dbOk)
           q == [req[r] EXCEPT !.read = TRUE, !.cached = existing, !.storeError = ~dbOk]
       IN IF AlreadyProcessed(existing)
          THEN req' = [req EXCEPT ![r] = Done(q, Resp(200, "already_processed", <<>>, None))]
          ELSE IF ~env.openaiKey
          THEN req' = [req EXCEPT ![r] = [q EXCEPT !.pc = "storeConfigError"]]
          ELSE req' = [req EXCEPT ![r] = [q EXCEPT !.pc = "normalize"]]
    /\ UNCHANGED <<cache, env>>

\* OPENAI_API_KEY missing: the FAILED upsert, without a meta column.
WebhookStoreConfigError(r, dbOk) ==
    /\ req[r].kind = "webhook" /\ req[r].pc = "storeConfigError"
    /\ LET q == req[r]
       IN /\ cache' = Stored(q.key, dbOk, WebhookFailedStatus, <<>>, <<>>, <<"config_error">>)
          /\ req' = [req EXCEPT ![r] =
                 Done([q EXCEPT !.wrote = TRUE, !.storeError = @ \/ ~dbOk], Resp(500, None, <<>>, "Server configuration error"))]
    /\ UNCHANGED env

\* payload.source_url || item url || existingMeta.source_url || the default.
resolvedSourceUrl(q) ==
    Or2(q.payload.source_url, Or2(q.item.url, Or2(q.cached.meta.source_url, DefaultUrl(q.key))))

\* normalizeRecipe of openai.ts on the scraped caption and transcript.
WebhookNormalize(r, ok, out) ==
    /\ req[r].kind = "webhook" /\ req[r].pc = "normalize"
    /\ LET q == req[r]
       IN IF ok
          THEN req' = [req EXCEPT ![r] =
                    [q EXCEPT !.pc = "storeReady", !.normalized = TRUE, !.provider = "openai",
                              !.recipe = <<Backfill(out, q.key, resolvedSourceUrl(q))>>]]
          ELSE /\ out = Output(1, None, None)
               /\ req' = [req EXCEPT ![r] = [q EXCEPT !.pc = "storeFailed", !.normalized = TRUE,
                                                        !.provider = "openai"]]
    /\ UNCHANGED <<cache, env>>

\* updatedMeta: the stored meta under the delivery's own fields.
updatedMeta(q) ==
    [q.cached.meta EXCEPT !.source_url = resolvedSourceUrl(q),
                          !.caption = q.item.caption,
                          !.transcript = q.item.transcript,
                          !.actorRunId = Or2(q.payload.actorRunId, q.cached.meta.actorRunId)]

\* The READY upsert; its error is thrown inside the try and lands in the
\* handler of a failed normalization.
WebhookStoreReady(r, dbOk) ==
    /\ req[r].kind = "webhook" /\ req[r].pc = "storeReady"
    /\ LET q == [req[r] EXCEPT !.wrote = TRUE, !.storeError = @ \/ ~dbOk]
       IN /\ cache' = Stored(q.key, dbOk, "READY", q.recipe, <<updatedMeta(q)>>, <<>>)
          /\ IF dbOk
             THEN req' = [req EXCEPT ![r] = Done(q, Resp(200, "success", <<>>, None))]
             ELSE req' = [req EXCEPT ![r] = [q EXCEPT !.pc = "storeFailed"]]
    /\ UNCHANGED env

\* The FAILED upsert after a failed normalization.
WebhookStoreFailed(r, dbOk) ==
    /\ req[r].kind = "webhook" /\ req[r].pc = "storeFailed"
    /\ LET q == req[r]
           meta == [source_url |-> q.payload.source_url,
                    caption |-> q.payload.caption,
                    transcript |-> q.payload.transcript,
                    actorRunId |-> q.payload.actorRunId]
       IN /\ cache' = Stored(q.key, dbOk, WebhookFailedStatus, <<>>, <<meta>>, <<"normalization_error">>)
          /\ req' = [req EXCEPT ![r] =
                 Done([q EXCEPT !.wrote = TRUE, !.storeError = @ \/ ~dbOk], Resp(500, None, <<>>, "Normalization failed"))]
    /\ UNCHANGED env

(***************************************************************************)
(* GET /result                                                             *)
(***************************************************************************)
\* A poll that answers 200 whatever the status.
ResultStatusCodeFlat(status) == 200

\* The HTTP status of the answer for a row that exists.
ResultStatusCode(status) == IF status = "PENDING" THEN 202 ELSE 200

ResultGet(r, key, dbOk) ==
    /\ req[r].kind = "idle"
    /\ LET q == [Idle EXCEPT !.kind = "result", !.queryKey = key]
           cached == cache[key]
       IN IF key = None
          THEN dbOk /\ req' = [req EXCEPT ![r] = Done(q, Resp(400, None, <<>>, "Missing key"))]
          ELSE IF ~env.supabase
          THEN dbOk /\ req' = [req EXCEPT ![r] = Done(q, Resp(500, None, <<>>, "Server configuration error"))]
          ELSE IF ~dbOk
          THEN req' = [req EXCEPT ![r] = Done([q EXCEPT !.key = key, !.read = TRUE, !.storeError = TRUE],
                                              Resp(500, None, <<>>, "Database error"))]
          ELSE LET got == [q EXCEPT !.key = key, !.read = TRUE, !.cached = cached]
               IN IF cached.status = "NONE"
                  THEN req' = [req EXCEPT ![r] = Done(got, Resp(404, "FAILED", <<>>, "not_found"))]
                  ELSE req' = [req EXCEPT ![r] =
                         Done(got, Resp(ResultStatusCode(cached.status),
                                        cached.status,
                                        IF cached.status = "READY" THEN cached.value ELSE <<>>,
                                        IF cached.status = "FAILED" THEN cached.error ELSE None))]
    /\ UNCHANGED <<cache, env>>

\* The response is sent and the request is over.
Finish(r) ==
    /\ req[r].pc = "done"
    /\ req' = [req EXCEPT ![r] = Idle]
    /\ UNCHANGED <<cache, env>>

(***************************************************************************)
(* The system.  A behaviour follows the job of one video: a request that   *)
(* names a video starts only while no other video has a row.               *)
(***************************************************************************)
OneVideo(key) == \A k \in Keys \ {key} : cache[k].status = "NONE"

Init ==
    /\ cache = [k \in Keys |-> NoRow]
    /\ req = [r \in Reqs |-> Idle]
    /\ env \in Envs

NewExtract(r, urls, oembeds, forces) ==
    \E url \in urls, force \in forces, oe \in oembeds :
        /\ ExtractStart(r, url, force, oe)
        /\ req'[r].key # None => OneVideo(req'[r].key)

NewWebhook(r, secrets, payloads, worlds) ==
    \E secret \in secrets, queryKey \in QueryKeys,
       payload \in payloads, world \in worlds :
        /\ WebhookStart(r, secret, queryKey, payload, world)
        /\ req'[r].key # None => OneVideo(req'[r].key)

NewResult(r) ==
    \E key \in Keys \cup {None}, dbOk \in BOOLEAN :
        /\ ResultGet(r, key, dbOk)
        /\ key # None => OneVideo(key)

ExtractStep(r, outs) ==
    \/ \E dbOk \in BOOLEAN : ExtractLookup(r, dbOk)
    \/ \E ok \in BOOLEAN, out \in outs : ExtractNormalize(r, ok, out)
    \/ \E dbOk \in BOOLEAN : ExtractStoreReady(r, dbOk)
    \/ \E ok \in BOOLEAN, run \in RunIds : ExtractTrigger(r, ok, run)
    \/ \E dbOk \in BOOLEAN : ExtractStorePending(r, dbOk)
    \/ \E dbOk \in BOOLEAN : ExtractStoreFailed(r, dbOk)
    \/ \E ok \in BOOLEAN, out \in outs : ExtractYtNormalize(r, ok, out)
    \/ \E dbOk \in BOOLEAN : ExtractYtStoreReady(r, dbOk)
    \/ \E dbOk \in BOOLEAN : ExtractYtStoreFailed(r, dbOk)

WebhookStep(r, outs) ==
    \/ \E dbOk \in BOOLEAN : WebhookStoreNoContent(r, dbOk)
    \/ \E dbOk \in BOOLEAN : WebhookLookup(r, dbOk)
    \/ \E dbOk \in BOOLEAN : WebhookStoreConfigError(r, dbOk)
    \/ \E ok \in BOOLEAN, out \in outs : WebhookNormalize(r, ok, out)
    \/ \E dbOk \in BOOLEAN : WebhookStoreReady(r, dbOk)
    \/ \E dbOk \in BOOLEAN : WebhookStoreFailed(r, dbOk)

\* No request is being handled.
Quiet == \A r \in Reqs : req[r].pc = "idle"

\* Requests one after the other: a request starts when none is in flight.
Next ==
    \E r \in {"r1"} :
        \/ Quiet /\ NewExtract(r, Urls \cup {None}, TikTokOEmbeds \cup YouTubeOEmbeds, BOOLEAN)
        \/ Quiet /\ NewWebhook(r, Secrets, Payloads, Worlds)
        \/ Quiet /\ NewResult(r)
        \/ ExtractStep(r, ProviderOutputs)
        \/ WebhookStep(r, ProviderOutputs)
        \/ Finish(r)

Spec == Init /\ [][Next]_vars

(***************************************************************************)
(* Two overlapping requests about one TikTok video, each handled once,     *)
(* interleaving at their awaits.  They start from a store that holds no    *)
(* row for the video, or a row an earlier /extract has left there.         *)
(***************************************************************************)
EarlierMeta == [NoMeta EXCEPT !.source_url = UrlTikTokLong, !.caption = "terse"]

EarlierRows ==
    {NoRow,
     Upsert(NoRow, "PENDING", <<>>, <<[EarlierMeta EXCEPT !.actorRunId = "run1"]>>, <<>>),
     Upsert(NoRow, "FAILED", <<>>, <<EarlierMeta>>, <<"apify_error">>),
     Upsert(NoRow, "READY", <<Backfill(Output(1, None, None), "t1", UrlTikTokLong)>>,
            <<[EarlierMeta EXCEPT !.caption = "recipe"]>>, <<>>)}

InitRace ==
    /\ \E row \in EarlierRows : cache = [k \in Keys |-> IF k = "t1" THEN row ELSE NoRow]
    /\ req = [r \in Reqs |-> Idle]
    /\ env = FullEnv

RaceOEmbeds ==
    {OEmbed(id, title, None, None) : id \in TikTokIds, title \in {"terse", "recipe"}}

RacePayloads == {Reference("ds1", "run1", None)}

RaceWorlds ==
    [run : {"ok"}, dataset : {"item"},
     item : {Item(id, None, t) : id \in TikTokIds, t \in {None, "vtt"}}]

RaceOutputs == {Output(v, None, None) : v \in 1..MaxVariant}

NextRace ==
    \E r \in Reqs :
        \/ NewExtract(r, {UrlTikTokLong}, RaceOEmbeds, BOOLEAN)
        \/ NewWebhook(r, {"good"}, RacePayloads, RaceWorlds)
        \/ \E dbOk \in BOOLEAN : ExtractLookup(r, dbOk)
        \/ \E ok \in BOOLEAN, out \in RaceOutputs : ExtractNormalize(r, ok, out)
        \/ \E dbOk \in BOOLEAN : ExtractStoreReady(r, dbOk)
        \/ \E ok \in BOOLEAN, run \in RunIds : ExtractTrigger(r, ok, run)
        \/ \E dbOk \in BOOLEAN : ExtractStorePending(r, dbOk)
        \/ \E dbOk \in BOOLEAN : ExtractStoreFailed(r, dbOk)
        \/ \E dbOk \in BOOLEAN : WebhookStoreNoContent(r, dbOk)
        \/ \E dbOk \in BOOLEAN : WebhookLookup(r, dbOk)
        \/ \E ok \in BOOLEAN, out \in RaceOutputs : WebhookNormalize(r, ok, out)
        \/ \E dbOk \in BOOLEAN : WebhookStoreReady(r, dbOk)
        \/ \E dbOk \in BOOLEAN : WebhookStoreFailed(r, dbOk)

SpecRace == InitRace /\ [][NextRace]_vars

(***************************************************************************)
(* External services that may never answer.  The handlers await fetch()    *)
(* without an AbortSignal, so a call to the normalizer or to the Apify API *)
(* that gets no answer leaves the request awaiting it.                     *)
(***************************************************************************)
\* The steps at which a request awaits the normalizer or the scraper API.
AwaitsExternal == {"normalize", "ytNormalize", "trigger"}

\* The awaited service never answers: the request stays suspended in its
\* await and sends no response.
NeverAnswers(r) ==
    /\ req[r].kind \in {"extract", "webhook"}
    /\ req[r].pc \in AwaitsExternal
    /\ req' = [req EXCEPT ![r].pc = "hung"]
    /\ UNCHANGED <<cache, env>>

NextHang ==
    \/ Next
    \/ \E r \in {"r1"} : NeverAnswers(r)

SpecHang == Init /\ [][NextHang]_vars

(***************************************************************************)
(* The statements of the specification.                                    *)
(***************************************************************************)
\* The scraped item carries a caption or a transcript.
HasContent(q) == q.item.caption # None \/ q.item.transcript # None

\* The request is a /extract without force=true.
PlainExtract(q) == q.kind = "extract" /\ ~q.force

\* C1: with requests handled one after the other, once the job of a key is
\* READY no step of a request without force=true changes its value or moves
\* its status away from READY.
C1_NoRegression ==
    [][\A k \in Keys, r \in Reqs :
        (/\ cache[k].status = "READY"
         /\ req'[r] # req[r]
         /\ ~(req[r].kind = "extract" /\ req[r].force))
        => (cache'[k].status = "READY" /\ cache'[k].value = cache[k].value)]_vars

\* C2: a webhook delivery that carries a caption or a transcript, for a key
\* whose job is READY, does not invoke the normalizer, leaves the value as it
\* is and is answered with 200.
C2_RedeliveryIsNoOp ==
    [][\A r \in Reqs :
        (/\ req[r].kind = "webhook" /\ HasContent(req[r])
         /\ cache[req[r].key].status = "READY"
         /\ req'[r] # req[r] /\ req'[r].kind = "webhook")
        => (/\ req'[r].normalized = req[r].normalized
            /\ cache'[req[r].key].value = cache[req[r].key].value
            /\ req'[r].pc = "done" => req'[r].resp.code = 200)]_vars

\* C3: one /extract without force and one webhook delivery with content, for
\* the same key and with no store access failing: once one of them has stored
\* READY, no later step of the other changes the value or moves the status
\* away from READY.
C3_FirstReadyWins ==
    [][\A r \in Reqs : \A o \in Reqs \ {r} :
        (/\ {req[r].kind, req[o].kind} = {"extract", "webhook"}
         /\ \A x \in {r, o} : /\ req[x].kind = "extract" => ~req[x].force
                              /\ req[x].kind = "webhook" => HasContent(req[x])
                              /\ ~req[x].storeError
         /\ req[r].key = req[o].key
         /\ req[o].pc = "done" /\ req[o].wrote
         /\ req[o].resp.status \in {"READY", "success"}
         /\ cache[req[o].key].status = "READY"
         /\ req'[r] # req[r])
        => (/\ cache'[req[o].key].status = "READY"
            /\ cache'[req[o].key].value = cache[req[o].key].value)]_vars

\* C4: two deliveries of the same webhook that both found the job PENDING,
\* with no store access failing: the normalizer is invoked by at most one of
\* them, and they do not both store READY with different values.
C4_ExactlyOnce ==
    \A r \in Reqs : \A o \in Reqs \ {r} :
        (/\ req[r].kind = "webhook" /\ req[o].kind = "webhook"
         /\ req[r].key = req[o].key
         /\ req[r].item = req[o].item /\ req[r].payload = req[o].payload
         /\ req[r].read /\ req[o].read
         /\ req[r].cached.status = "PENDING" /\ req[o].cached.status = "PENDING"
         /\ ~req[r].storeError /\ ~req[o].storeError)
        => (/\ ~(req[r].normalized /\ req[o].normalized)
            /\ ~(/\ req[r].resp.status = "success" /\ req[o].resp.status = "success"
                 /\ req[r].recipe # req[o].recipe))

\* C5: two /extract requests without force for the same video, which had no
\* job when they looked it up, with no store access failing: at most one of
\* them starts a run of the scraper.
C5_TriggeredOnce ==
    \A r \in Reqs : \A o \in Reqs \ {r} :
        (/\ PlainExtract(req[r]) /\ PlainExtract(req[o])
         /\ req[r].key = req[o].key
         /\ req[r].read /\ req[o].read
         /\ req[r].cached.status = "NONE" /\ req[o].cached.status = "NONE"
         /\ ~req[r].storeError /\ ~req[o].storeError)
        => ~(/\ req[r].triggered /\ req[r].runId # None
             /\ req[o].triggered /\ req[o].runId # None)

\* C6: a /extract without force whose lookup found the job PENDING is over
\* with 202 PENDING, has triggered no scraper and called no normalizer, has
\* written nothing, and the row is as it found it.
C6_PendingHit ==
    \A r \in Reqs :
        (PlainExtract(req[r]) /\ req[r].read /\ req[r].cached.status = "PENDING")
        => (/\ req[r].pc = "done"
            /\ req[r].resp = Resp(202, "PENDING", <<>>, None)
            /\ ~req[r].triggered /\ ~req[r].normalized /\ ~req[r].wrote
            /\ cache[req[r].key] = req[r].cached)

C6_PendingHitSeen ==
    \E r \in Reqs :
        /\ PlainExtract(req[r]) /\ req[r].read /\ req[r].cached.status = "PENDING"
        /\ req[r].pc = "done" /\ req[r].resp.code = 202
        /\ cache[req[r].key].status = "PENDING"

\* C7: a /extract without force whose lookup found the job READY, for a
\* TikTok or a YouTube URL, is over with 200 READY and the stored value, has
\* called no normalizer and no scraper, has written nothing, and the row is
\* as it found it.
C7_ReadyHit ==
    \A r \in Reqs :
        (PlainExtract(req[r]) /\ req[r].read /\ req[r].cached.status = "READY")
        => (/\ req[r].pc = "done"
            /\ req[r].resp = Resp(200, "READY", req[r].cached.value, None)
            /\ ~req[r].triggered /\ ~req[r].normalized /\ ~req[r].wrote
            /\ cache[req[r].key] = req[r].cached)

C7_ReadyHitSeen ==
    \E r \in Reqs :
        /\ PlainExtract(req[r]) /\ req[r].platform = "youtube"
        /\ req[r].read /\ req[r].cached.status = "READY"
        /\ req[r].pc = "done" /\ req[r].resp.code = 200
        /\ req[r].resp.value = cache[req[r].key].value /\ req[r].resp.value # <<>>

\* C8: a /extract without force whose lookup found the job FAILED, on any
\* platform, is over with 200 FAILED and the stored error, has called no
\* normalizer and no scraper, has written nothing, and the row is as it
\* found it.
C8_FailedHit ==
    \A r \in Reqs :
        (PlainExtract(req[r]) /\ req[r].read /\ req[r].cached.status = "FAILED")
        => (/\ req[r].pc = "done"
            /\ req[r].resp = Resp(200, "FAILED", <<>>, req[r].cached.error)
            /\ ~req[r].triggered /\ ~req[r].normalized /\ ~req[r].wrote
            /\ cache[req[r].key] = req[r].cached)

\* C9: once a job is FAILED, only a step of a /extract with force=true
\* changes its status or its error.
C9_FailedIsTerminal ==
    [][\A k \in Keys, r \in Reqs :
        (/\ cache[k].status = "FAILED"
         /\ req'[r] # req[r]
         /\ ~(req[r].kind = "extract" /\ req[r].force))
        => (cache'[k].status = "FAILED" /\ cache'[k].error = cache[k].error)]_vars

\* C10: the key a /extract looks up, and every row a step of it writes, is
\* the id in the oEmbed answer of that request (embed_product_id for TikTok,
\* the id in the thumbnail URL for YouTube), whatever the URL shows.
C10_CanonicalKey ==
    [][\A r \in Reqs :
        (req'[r].kind = "extract" /\ req'[r] # req[r])
        => LET q == req'[r]
               id == IF q.platform = "youtube"
                     THEN extractVideoIdFromThumbnail(q.oembed.thumbnail_url)
                     ELSE q.oembed.embed_product_id
           IN /\ q.key # None => q.key = id
              /\ \A k \in Keys : cache'[k] # cache[k] => k = id]_vars

\* A /extract of the share link has found the row a /extract of the long
\* URL left (only /extract stores apify_error), and has rewritten it.
C10_TwoUrlsOneRow ==
    \E r \in Reqs :
        /\ req[r].kind = "extract" /\ req[r].url = UrlTikTokShort
        /\ req[r].key = "t1" /\ req[r].force
        /\ req[r].cached.error = "apify_error"
        /\ req[r].cached.meta.source_url = UrlTikTokLong
        /\ req[r].wrote /\ cache["t1"].meta.source_url = UrlTikTokShort
        /\ cache[ShortCode] = NoRow

\* C11: with a secret configured, a webhook request whose secret parameter
\* is missing or different is answered 401 in its first step, which changes
\* no row; the request has fetched no dataset item, has not touched the
\* store and has called no normalizer.
C11_BadSecret ==
    [][\A r \in Reqs :
        (/\ req[r].kind = "idle" /\ req'[r].kind = "webhook"
         /\ env.webhookSecret
         /\ (req'[r].secret = None \/ req'[r].secret # ExpectedSecret))
        => (/\ req'[r].pc = "done" /\ req'[r].resp.code = 401
            /\ cache' = cache
            /\ req'[r].item = NoItem /\ req'[r].key = None
            /\ ~req'[r].read /\ ~req'[r].wrote /\ ~req'[r].normalized)]_vars

C11_BadSecretSeen ==
    \E r \in Reqs :
        /\ req[r].kind = "webhook" /\ req[r].secret = "bad"
        /\ req[r].pc = "done" /\ req[r].resp.code = 401
        /\ cache["t1"].status = "PENDING"

\* The Apify settings /extract needs to start the scraper are there.
ApifyConfigured == env.apifyToken /\ env.apifyActor /\ env.webhookSecret

\* C12: a TikTok /extract that found no job, whose caption passes the recipe
\* heuristic and whose fast path has failed, goes on to the scraper: it does
\* not end before it has called the scraper (Apify being configured), and
\* once the run has started it ends with 202 PENDING and, its upsert being
\* stored, a PENDING row.
C12_FastPathFallback ==
    \A r \in Reqs :
        (/\ req[r].kind = "extract" /\ req[r].platform = "tiktok"
         /\ req[r].read /\ ~req[r].storeError /\ req[r].cached.status = "NONE"
         /\ shouldNormalizeFromCaption(extractCaption(req[r].oembed))
         /\ req[r].pc \notin {"lookup", "normalize"}
         /\ req[r].recipe = <<>>
         /\ ApifyConfigured)
        => (/\ req[r].pc \in {"trigger", "storePending", "storeFailed", "done"}
            /\ req[r].pc = "done" => req[r].triggered
            /\ (req[r].pc = "done" /\ req[r].runId # None)
                => (/\ req[r].resp = Resp(202, "PENDING", <<>>, None)
                    /\ cache[req[r].key].status = "PENDING"))

C12_FastPathFallbackSeen ==
    \E r \in Reqs :
        /\ req[r].kind = "extract" /\ req[r].platform = "tiktok"
        /\ req[r].cached.status = "NONE" /\ req[r].read
        /\ shouldNormalizeFromCaption(extractCaption(req[r].oembed))
        /\ req[r].normalized /\ req[r].recipe = <<>>
        /\ req[r].triggered /\ req[r].pc = "done"
        /\ req[r].resp.code = 202 /\ cache[req[r].key].status = "PENDING"

\* C13: a webhook delivery that found the job PENDING, carries a transcript
\* and got a recipe from the normalizer ends, its upsert being stored, with
\* 200 and the job READY with that recipe; and a GET /result that has read a
\* READY job answers 200 READY with the job's value.
C13_PendingToReady ==
    \A r \in Reqs :
        /\ (/\ req[r].kind = "webhook" /\ req[r].pc = "done"
             /\ req[r].cached.status = "PENDING" /\ req[r].item.transcript # None
             /\ req[r].recipe # <<>> /\ ~req[r].storeError)
            => (/\ req[r].resp.code = 200
                /\ cache[req[r].key].status = "READY"
                /\ cache[req[r].key].value = req[r].recipe)
        /\ (/\ req[r].kind = "result" /\ req[r].pc = "done"
             /\ req[r].read /\ ~req[r].storeError
             /\ cache[req[r].key].status = "READY")
            => req[r].resp = Resp(200, "READY", cache[req[r].key].value, None)

\* GET /result answers 200 READY for a job that /extract left PENDING (its
\* meta holds the URL /extract stored and it never held an error) and that
\* a delivery with a transcript completed.
C13_PolledReady ==
    \E r \in Reqs :
        /\ req[r].kind = "result" /\ req[r].pc = "done"
        /\ req[r].resp.code = 200 /\ req[r].resp.status = "READY"
        /\ req[r].resp.value # <<>>
        /\ cache[req[r].key].meta.transcript = "vtt"
        /\ cache[req[r].key].meta.caption = None
        /\ cache[req[r].key].meta.actorRunId = "run1"
        /\ cache[req[r].key].meta.source_url = UrlTikTokShort
        /\ cache[req[r].key].error = None

\* C14: a TikTok /extract with force=true that found the job FAILED and
\* whose caption passes the heuristic does not answer the stored failure;
\* when the normalizer has given a recipe it ends, its upsert being stored,
\* with 200 READY and that recipe, and the job is READY with it.
C14_ForcedRetry ==
    \A r \in Reqs :
        (/\ req[r].kind = "extract" /\ req[r].platform = "tiktok" /\ req[r].force
         /\ req[r].read /\ ~req[r].storeError /\ req[r].cached.status = "FAILED"
         /\ shouldNormalizeFromCaption(extractCaption(req[r].oembed)))
        => (/\ req[r].pc \in {"normalize", "storeReady", "trigger", "storePending",
                               "storeFailed", "done"}
            /\ req[r].pc = "done" => req[r].resp.status # "FAILED"
            /\ (req[r].pc = "done" /\ req[r].recipe # <<>>)
                => (/\ req[r].resp = Resp(200, "READY", req[r].recipe, None)
                    /\ cache[req[r].key].status = "READY"
                    /\ cache[req[r].key].value = req[r].recipe))

C14_ForcedRetrySeen ==
    \E r \in Reqs :
        /\ req[r].kind = "extract" /\ req[r].platform = "tiktok" /\ req[r].force
        /\ req[r].cached.status = "FAILED" /\ req[r].pc = "done"
        /\ req[r].normalized /\ req[r].recipe # <<>>
        /\ req[r].resp.code = 200 /\ req[r].resp.status = "READY"
        /\ cache[req[r].key].status = "READY"
        /\ cache[req[r].key].value = req[r].resp.value

\* C15: without GEMINI_API_KEY, a /extract of a YouTube URL calls no
\* normalization provider and gets no recipe; it ends with 500, and once it
\* has found no READY job to answer from it stores the failure.
C15_NoVideoKey ==
    \A r \in Reqs :
        (req[r].kind = "extract" /\ req[r].platform = "youtube" /\ ~env.geminiKey)
        => (/\ ~req[r].normalized /\ req[r].recipe = <<>> /\ req[r].provider = None
            /\ (req[r].pc = "done" /\ req[r].key # None /\ req[r].cached.status # "READY")
                => req[r].resp.code = 500
            /\ (req[r].pc = "done" /\ req[r].wrote)
                => req[r].resp.error = "Failed to analyze video"
            /\ (req[r].pc = "done" /\ req[r].wrote /\ ~req[r].storeError)
                => /\ cache[req[r].key].status = "FAILED"
                   /\ cache[req[r].key].error = "gemini_video_error")

C15_NoVideoKeySeen ==
    \E r \in Reqs :
        /\ req[r].kind = "extract" /\ req[r].platform = "youtube"
        /\ ~env.geminiKey /\ env.openaiKey
        /\ req[r].pc = "done" /\ req[r].resp.code = 500 /\ ~req[r].normalized
        /\ cache[req[r].key].status = "FAILED"

\* C16: a job row has a value if and only if its status is READY.
C16_ValueIffReady ==
    \A k \in Keys : (cache[k].value # <<>>) <=> (cache[k].status = "READY")

\* C17: a job row has an error if and only if its status is FAILED.
C17_ErrorIffFailed ==
    \A k \in Keys : (cache[k].error # None) <=> (cache[k].status = "FAILED")

\* C18: a GET /result changes no row; when its read of the store succeeds
\* it answers 200 READY with the value for a READY job, 200 FAILED with the
\* error for a FAILED job, 202 PENDING for a PENDING job and 404 when the
\* key has no job.
C18_ResultIsReadOnly ==
    [][\A r \in Reqs :
        (req[r].kind = "idle" /\ req'[r].kind = "result")
        => (/\ cache' = cache
            /\ ~req'[r].wrote /\ req'[r].pc = "done"
            /\ (req'[r].read /\ ~req'[r].storeError)
                => LET row == cache[req'[r].key]
                   IN req'[r].resp =
                        CASE row.status = "READY" -> Resp(200, "READY", row.value, None)
                          [] row.status = "FAILED" -> Resp(200, "FAILED", <<>>, row.error)
                          [] row.status = "PENDING" -> Resp(202, "PENDING", <<>>, None)
                          [] OTHER -> Resp(404, "FAILED", <<>>, "not_found"))]_vars

C18_PolledFailed ==
    \E r \in Reqs :
        /\ req[r].kind = "result" /\ req[r].pc = "done" /\ req[r].read
        /\ cache[req[r].key].status = "FAILED"
        /\ req[r].resp.code = 200 /\ req[r].resp.status = "FAILED"
        /\ req[r].resp.error = "apify_error"

\* C19: a webhook delivery with the valid secret that has found the job
\* READY, or has stored READY, FAILED for want of content or FAILED after a
\* failed normalization, is answered with a 2xx status.
C19_TerminalIsAcknowledged ==
    \A r \in Reqs :
        (/\ req[r].kind = "webhook" /\ req[r].pc = "done"
         /\ req[r].secret = ExpectedSecret
         /\ \/ req[r].read /\ req[r].cached.status = "READY"
            \/ /\ req[r].wrote /\ ~req[r].storeError
               /\ (~HasContent(req[r]) \/ req[r].normalized))
        => (req[r].resp.code >= 200 /\ req[r].resp.code < 300)

\* C20: a /extract or a webhook delivery one of whose store accesses (the
\* lookup or an upsert) has failed ends with a 500 response.
C20_StoreErrorsSurface ==
    \A r \in Reqs :
        (/\ req[r].kind \in {"extract", "webhook"}
         /\ req[r].storeError /\ req[r].pc = "done")
        => req[r].resp.code = 500

\* C21: a /extract or a webhook request that is answered 400 has changed no
\* row: the step that answers changes none, and the request had sent no
\* upsert before it.
C21_ValidationNotPersisted ==
    [][\A r \in Reqs :
        (/\ req'[r].kind \in {"extract", "webhook"}
         /\ req[r].pc # "done" /\ req'[r].pc = "done"
         /\ req'[r].resp.code = 400)
        => (cache' = cache /\ ~req[r].wrote)]_vars

\* The body and the scraper's answers carry content for key k: in the body
\* itself (the inline shape), or in the first item of the dataset the body
\* refers to, by its id or by the id of the run.
CarriesInline(payload, k) ==
    /\ payload.datasetId = None /\ payload.actorRunId = None
    /\ payload.key = k
    /\ (payload.caption # None \/ payload.transcript # None)

CarriesByReference(payload, world, k) ==
    /\ \/ payload.datasetId # None
       \/ payload.actorRunId # None /\ world.run = "ok"
    /\ world.dataset = "item" /\ world.item.id = k
    /\ (world.item.caption # None \/ world.item.transcript # None)

\* C22: in a deployment with its secrets set, a delivery with the valid
\* secret that carries content for a PENDING key, inline or by reference, is
\* not answered in its first step but goes on to look the job up, and from
\* the lookup it goes on to the normalizer.
C22_BothShapes ==
    [][\A r \in Reqs :
        /\ (req[r].kind = "idle" /\ req'[r].kind = "webhook" /\ env = FullEnv)
            => \A payload \in Payloads, world \in Worlds, k \in TikTokIds,
                  queryKey \in QueryKeys :
                 (/\ cache[k].status = "PENDING"
                  /\ CarriesInline(payload, k) \/ CarriesByReference(payload, world, k)
                  /\ WebhookStart(r, ExpectedSecret, queryKey, payload, world))
                 => (req'[r].pc = "lookup" /\ req'[r].key = k)
        /\ (/\ req[r].kind = "webhook" /\ req[r].pc = "lookup"
            /\ req'[r] # req[r] /\ env = FullEnv
            /\ cache[req[r].key].status = "PENDING")
            => req'[r].pc = "normalize"]_vars

\* C23: no step of a webhook delivery erases a meta field of a PENDING job
\* (whose meta is what /extract stored when it started the scraper):
\* source_url, caption and actorRunId, where they held a value before the
\* step, hold a value after it, whether the step stores READY or FAILED.
C23_MetaNotErased ==
    [][\A r \in Reqs :
        (/\ req[r].kind = "webhook" /\ req[r].key # None /\ req'[r] # req[r]
         /\ cache[req[r].key].status = "PENDING")
        => \A f \in {"source_url", "caption", "actorRunId"} :
             cache[req[r].key].meta[f] # None => cache'[req[r].key].meta[f] # None]_vars

\* C24: the value of every READY job carries an id, a source_url and a
\* media object, whatever the provider answered.
C24_IdentityAndSource ==
    \A k \in Keys :
        cache[k].status = "READY"
        => /\ cache[k].value # <<>>
           /\ cache[k].value[1].id # None
           /\ cache[k].value[1].source_url # None
           /\ cache[k].value[1].media # None

\* A READY job whose id, source_url and media the normalizer filled in from
\* its input, stored by a webhook delivery.
C24_FilledIn ==
    \E r \in Reqs :
        /\ req[r].kind = "webhook" /\ req[r].pc = "done" /\ req[r].wrote
        /\ req[r].resp.status = "success"
        /\ cache[req[r].key].status = "READY"
        /\ cache[req[r].key].value = req[r].recipe
        /\ req[r].recipe[1].id = req[r].key
        /\ req[r].recipe[1].source_url = DefaultUrl(req[r].key)
        /\ req[r].recipe[1].media = "oembed"

\* C25: a TikTok /extract that has answered 200 READY with the recipe its
\* own fast path produced has answered a value whose source_url is the URL
\* of the request.
C25_SourceIsInput ==
    \A r \in Reqs :
        (/\ req[r].kind = "extract" /\ req[r].platform = "tiktok"
         /\ req[r].pc = "done" /\ req[r].normalized /\ req[r].recipe # <<>>
         /\ req[r].resp.code = 200 /\ req[r].resp.status = "READY")
        => (/\ req[r].resp.value = req[r].recipe
            /\ req[r].resp.value[1].source_url = req[r].url)

\* C26: a /extract that is over has answered 200 READY with a value, 202
\* PENDING, 200 FAILED with an error, 400 or 500; and it has answered 500
\* only when a setting of the deployment is missing (the store's or the
\* scraper's credentials, the key of the video provider) or one of its store
\* accesses has failed.
C26_ExtractOutcomes ==
    \A r \in Reqs :
        (req[r].kind = "extract" /\ req[r].pc = "done")
        => LET resp == req[r].resp
           IN /\ \/ resp.code = 200 /\ resp.status = "READY" /\ resp.value # <<>>
                 \/ resp.code = 202 /\ resp.status = "PENDING"
                 \/ resp.code = 200 /\ resp.status = "FAILED" /\ resp.error # None
                 \/ resp.code = 400
                 \/ resp.code = 500
              /\ resp.code = 500
                 => \/ ~env.supabase
                    \/ req[r].platform = "tiktok" /\ ~ApifyConfigured
                    \/ req[r].platform = "youtube" /\ ~env.geminiKey
                    \/ req[r].storeError

\* C27: a /extract of a TikTok or YouTube URL whose oEmbed fetch fails, or
\* whose oEmbed answer has no embed_product_id (TikTok) or no thumbnail URL
\* with the id in it (YouTube), is answered 400 in its first step: it has no
\* key, has not read or written the store, has called no normalizer and no
\* scraper, and no row has changed.
C27_MetadataFailsClosed ==
    [][\A r \in Reqs :
        (/\ req[r].kind = "idle" /\ req'[r].kind = "extract"
         /\ env.supabase /\ req'[r].platform # None)
        => \A oe \in TikTokOEmbeds \cup YouTubeOEmbeds :
             (/\ \/ ~oe.ok
                 \/ /\ req'[r].platform = "tiktok"
                    /\ oe.embed_product_id = None
                 \/ /\ req'[r].platform = "youtube"
                    /\ \A id \in YouTubeIds : oe.thumbnail_url # ThumbOf(id)
              /\ ExtractStart(r, req'[r].url, req'[r].force, oe))
             => (/\ req'[r].pc = "done" /\ req'[r].resp.code = 400
                 /\ req'[r].key = None
                 /\ ~req'[r].read /\ ~req'[r].wrote
                 /\ ~req'[r].normalized /\ ~req'[r].triggered
                 /\ cache' = cache)]_vars

\* A /extract of a YouTube URL that shows the id of a video with a FAILED
\* job, answered 400 for want of an id in the oEmbed answer.
C27_NoIdRejected ==
    \E r \in Reqs :
        /\ req[r].kind = "extract" /\ req[r].platform = "youtube"
        /\ extractYouTubeVideoId(req[r].url) = "y1"
        /\ req[r].pc = "done" /\ req[r].resp.code = 400
        /\ req[r].resp.error = "Invalid video data"
        /\ req[r].key = None /\ ~req[r].read
        /\ cache["y1"].status = "FAILED"

\* C28: no step of a /extract whose normalization call has failed, and which
\* has not called the scraper, writes a FAILED row.
C28_NormalizerFailureSwallowed ==
    [][\A r \in Reqs :
        (/\ req[r].kind = "extract" /\ req'[r] # req[r]
         /\ req[r].normalized /\ req[r].recipe = <<>> /\ ~req[r].triggered)
        => \/ cache'[req[r].key] = cache[req[r].key]
           \/ cache'[req[r].key].status # "FAILED"]_vars

\* The key of the provider AI_PROVIDER selects is set.
SelectedKey == IF env.aiProvider = "gemini" THEN env.geminiKey ELSE env.openaiKey

\* C29: a /extract of a TikTok URL or a webhook delivery that has called a
\* normalization provider has called the one AI_PROVIDER selects, and has
\* called none when that provider's key is not set.
C29_ProviderBySwitch ==
    \A r \in Reqs :
        (/\ \/ req[r].kind = "webhook"
            \/ req[r].kind = "extract" /\ req[r].platform = "tiktok"
         /\ req[r].normalized)
        => (SelectedKey /\ req[r].provider = env.aiProvider)

\* C30: a step that creates a job row is a step of a /extract for that key,
\* and the row it creates is PENDING or READY; no step of a webhook
\* delivery creates a row.
C30_CreatedByExtract ==
    [][\A k \in Keys :
        (cache[k].status = "NONE" /\ cache'[k].status # "NONE")
        => \E r \in Reqs :
             /\ req[r].kind = "extract" /\ req[r].key = k /\ req'[r] # req[r]
             /\ cache'[k].status \in {"PENDING", "READY"}]_vars

\* C31: a step that writes a PENDING row is a step of a /extract whose
\* scraper run has started in that request, and the row's meta carries the
\* id of that run; every PENDING row carries a run id; and no step of a
\* /extract whose trigger has failed makes a row PENDING.
C31_PendingAfterTrigger ==
    [][\A k \in Keys :
        /\ (cache'[k] # cache[k] /\ cache'[k].status = "PENDING")
            => \E r \in Reqs :
                 /\ req[r].kind = "extract" /\ req[r].key = k /\ req'[r] # req[r]
                 /\ req[r].triggered /\ req[r].runId # None
                 /\ cache'[k].meta.actorRunId = req[r].runId
        /\ cache'[k].status = "PENDING" => cache'[k].meta.actorRunId # None
        /\ \A r \in Reqs :
             (/\ req[r].kind = "extract" /\ req[r].key = k /\ req'[r] # req[r]
              /\ req[r].triggered /\ req[r].runId = None
              /\ cache[k].status # "PENDING")
             => cache'[k].status # "PENDING"]_vars

\* A /extract whose trigger failed has stored the failure and left no
\* PENDING job.
C31_FailedTriggerSeen ==
    \E r \in Reqs :
        /\ req[r].kind = "extract" /\ req[r].pc = "done"
        /\ req[r].triggered /\ req[r].runId = None
        /\ req[r].wrote /\ ~req[r].storeError
        /\ cache[req[r].key].status = "FAILED"
        /\ cache[req[r].key].error = "apify_error"
        /\ cache[req[r].key].meta.actorRunId = None

\* C32: the request by which a /extract has started (or tried to start) a
\* run of the scraper carries a callback URL with the job's key and the
\* webhook secret.
C32_CallbackEmbedsKeyAndSecret ==
    \A r \in Reqs :
        (req[r].kind = "extract" /\ req[r].triggered)
        => (/\ req[r].actorInput.webhookUrl.key = req[r].key
            /\ req[r].actorInput.webhookUrl.secret = ExpectedSecret)

C34_ForcedPendingReruns ==
    \A r \in Reqs :
        (/\ req[r].kind = "extract" /\ req[r].force
         /\ req[r].read /\ ~req[r].storeError
         /\ req[r].cached.status = "PENDING" /\ req[r].pc = "done")
        => (req[r].normalized \/ req[r].triggered)

\* C35: the lookup of a TikTok /extract that found no job, or of one with
\* force=true, goes on to the fast path exactly when the caption is there,
\* is at least 20 characters long and holds at least 3 recipe keywords, and
\* otherwise goes on to the scraper.
C35_FastPathIffHeuristic ==
    [][\A r \in Reqs :
        (/\ req[r].kind = "extract" /\ req[r].platform = "tiktok"
         /\ req[r].pc = "lookup" /\ req'[r] # req[r] /\ ~req'[r].storeError
         /\ (cache[req[r].key].status = "NONE" \/ req[r].force))
        => LET caption == extractCaption(req[r].oembed)
               usable == /\ caption # None
                         /\ CaptionLength(caption) >= 20
                         /\ CaptionKeywords(caption) >= 3
           IN /\ usable <=> req'[r].pc = "normalize"
              /\ ~usable <=> req'[r].pc = "trigger"]_vars

\* C36: no /extract and no webhook delivery is left suspended in the await
\* of an external service that never answers: there is a timeout that ends
\* the await and lets the handler answer.
C36_NoRequestHangs ==
    \A r \in Reqs : req[r].pc # "hung"

\* C37: no step of a webhook delivery writes a PENDING row or turns a row
\* PENDING; a row turns PENDING only in the PENDING upsert of a /extract
\* whose scraper run has started.
C37_WebhookNeverPending ==
    [][\A k \in Keys :
        /\ \A r \in Reqs :
             (req[r].kind = "webhook" /\ req'[r] # req[r] /\ cache'[k] # cache[k])
             => cache'[k].status # "PENDING"
        /\ (cache[k].status # "PENDING" /\ cache'[k].status = "PENDING")
            => \E r \in Reqs :
                 /\ req[r].kind = "extract" /\ req[r].pc = "storePending"
                 /\ req[r].key = k /\ req[r].runId # None
                 /\ req'[r].pc = "done"]_vars

\* A delivery for a PENDING job has stored its failure: the job has gone
\* from PENDING to FAILED, not back to PENDING.
C37_PendingLeft ==
    \E r \in Reqs :
        /\ req[r].kind = "webhook" /\ req[r].pc = "done"
        /\ req[r].read /\ req[r].cached.status = "PENDING"
        /\ req[r].normalized /\ req[r].recipe = <<>>
        /\ req[r].wrote /\ ~req[r].storeError
        /\ cache[req[r].key].status = "FAILED"
        /\ cache[req[r].key].error = "normalization_error"

\* ---------------------------------------------------------------------------
\* C38: for every READY job, the id of the stored value equals the job's key,
\* whatever id the provider put in its output.
C38_ReadyIdIsKey ==
    \A k \in Keys :
        cache[k].status = "READY" => cache[k].value[1].id = k

\* ---------------------------------------------------------------------------
\* C39: after /extract answered 202 PENDING or 200 READY for a key, a job row
\* for that key exists in the store, so a later GET /result for that key never
\* answers 404.
C39_AnsweredJobExists ==
    \A r \in Reqs :
        (/\ req[r].kind = "extract" /\ req[r].pc = "done"
         /\ \/ req[r].resp.code = 202
            \/ (req[r].resp.code = 200 /\ req[r].resp.status = "READY"))
        => cache[req[r].key].status # "NONE"

====
